---------------------------- MODULE Spec2Model ----------------------------
(***************************************************************************)
(* GitHub Sentinel: the subscription store, the fetch / report / sink      *)
(* pipeline in its three run paths (REPL run_once, UI run_and_stream, the  *)
(* UI's scheduled _job), the pull-request cutoff and the scheduler handle. *)
(*                                                                         *)
(* A Python exception is modelled as a result value: a call returns a      *)
(* record whose res field is "ok" or the name of the exception raised, and *)
(* the caller's try/except structure decides what happens next.            *)
(***************************************************************************)
EXTENDS Integers, Sequences, FiniteSets, TLC

(* ------------------------------ bounds -------------------------------- *)

\* Largest number of subscriptions in the subscription file.
MaxSubs == 2

\* Largest time stamp (in days) of the pull-request cutoff inputs.
MaxTime == 8

\* Longest pull-request page of the cutoff inputs.
MaxPRs == 3

(* ----------------------------- vocabulary ------------------------------ *)

Categories == {"releases", "issues", "pull_requests", "commits"}

\* manager.py: track = ["releases", "issues", "pull_requests"] when None.
DefaultTrack == <<"releases", "issues", "pull_requests">>

\* client.py: subscription.get("track", [...]) when the key is absent.
AllTrack == <<"releases", "issues", "pull_requests", "commits">>

\* The track lists the inputs are drawn from (the empty list included).
TrackLists == {<<>>, DefaultTrack, <<"commits", "releases">>}

\* Display labels given by the user; "" stands for "no label given".
Labels == {"", "L1"}

\* f"{owner}/{repo}"
Slash(owner, repo) == owner \o "/" \o repo

Range(s) == {s[k] : k \in 1..Len(s)}

\* Python's "x in list"
In(x, list) == \E k \in 1..Len(list) : list[k] = x

VARIABLES
    file,           \* the subscription file: [exists, subs (JSON text)]
    mgr,            \* each SubscriptionManager's _data: [loaded, subs]
    interval,       \* config["scheduler"]["interval"]
    diskOK,         \* whether the report directory can be written
    path,           \* which run path is executing
    pc,             \* its position: idle, fetch, gen, job, done
    subscriptions,  \* the run's list of subscriptions
    idx,            \* the loop index of the run
    all_updates,    \* the fetch results collected by the run
    calls,          \* every fetch / generate / send call of the run, in order
    files,          \* number of report files written by the run
    messages,       \* what the run told its caller, in order
    outcome,        \* how the run ended
    pr_in,          \* get_pull_requests: input [data, now, days]
    pr_out,         \* get_pull_requests: [called, result]
    lastOp,         \* the last store call, the manager's list and the file's
                    \* list before it
    frontend,       \* which program runs: "repl" (main.py) or "ui" (app.py)
    scheduler_obj,  \* app.py _scheduler_obj: 0 for None, else a scheduler
    scheduler_thread, \* app.py _scheduler_thread: 0 for None, else a thread
    nsched,         \* number of SentinelScheduler objects constructed so far
    tpc,            \* each scheduler thread's position
    sstate,         \* each BlockingScheduler's state: stopped or running
    njobs,          \* each BlockingScheduler's number of registered jobs
    due,            \* whether a scheduler has a trigger instant to process
    active,         \* each scheduler's job executions in progress
    day,            \* the weekday of the last trigger instant (0 is Monday)
    ticks,          \* number of trigger instants that have passed
    startedNow,     \* job executions started for the last trigger instant
    stopped,        \* stop_scheduler has returned and start_scheduler was
                    \* not called since
    config,         \* the environment and settings.yaml: [token, key, time]
    started,        \* the program: boot (before load_config), up, fatal
    fu_in,          \* fetch_updates: input [sub, resp]
    fu_out,         \* fetch_updates: [called, res, reqs, items]
    dg_in,          \* generate_digest: input [updates, fails]
    dg_out          \* generate_digest: [called, res, generated, text]

storeVars == <<file, mgr, lastOp>>

runVars == <<interval, diskOK, path, pc, subscriptions, idx, all_updates,
             calls, files, messages, outcome>>

prVars == <<pr_in, pr_out>>

schedVars == <<frontend, scheduler_obj, scheduler_thread, nsched, tpc, sstate,
               njobs, due, active, day, ticks, startedNow, stopped>>

bootVars == <<config, started>>

fnVars == <<fu_in, fu_out, dg_in, dg_out>>


(* ------------------------- SubscriptionManager ------------------------- *)

\* Number of SubscriptionManager objects alive at once.
MaxManagers == 2

Managers == 1..MaxManagers

\* The (owner, repo) pairs the store's inputs are drawn from.
Keys == {<<"o1", "r1">>, <<"o1", "r2">>, <<"o2", "r1">>}

\* The track argument of add_subscription: None, or a list.
TrackArgs == {[none |-> TRUE, list |-> <<>>]}
             \cup {[none |-> FALSE, list |-> t] : t \in TrackLists}

\* The arguments the store's own specification draws add_subscription's
\* inputs from: two repositories of one owner, no track or the empty list.
StoreKeys == {<<"o1", "r1">>, <<"o1", "r2">>}

StoreTrackArgs == {[none |-> TRUE, list |-> <<>>], [none |-> FALSE, list |-> <<>>]}

NoFile == [exists |-> FALSE, subs |-> <<>>]

\* The keys of an entry, in the order the dictionary is built with.
EntryFields == <<"owner", "repo", "label", "track">>

\* json.dump of a str: a JSON string.
JsonString(s) == [t |-> "string", s |-> s, a |-> <<>>]

\* json.dump of a list of str: a JSON array of JSON strings.
JsonArray(l) == [t |-> "array", s |-> "", a |-> [k \in 1..Len(l) |-> JsonString(l[k])]]

\* json.dump of one entry: a JSON object, its members in insertion order.
JsonObject(e) ==
    LET present(k) == k \in DOMAIN e
        keys == SelectSeq(EntryFields, present)
    IN  [i \in 1..Len(keys) |->
            [k |-> keys[i],
             v |-> IF keys[i] = "track" THEN JsonArray(e[keys[i]])
                   ELSE JsonString(e[keys[i]])]]

\* json.dump of the subscription list.
JsonDump(subs) == [k \in 1..Len(subs) |-> JsonObject(subs[k])]

\* json.load of a JSON value: a str, or a list of str.
JsonValue(v) ==
    IF v.t = "array" THEN [k \in 1..Len(v.a) |-> v.a[k].s] ELSE v.s

\* json.load of a JSON object: a dictionary; of a key written more than
\* once the last member counts.
JsonDict(obj) ==
    [k \in {obj[i].k : i \in 1..Len(obj)} |->
        LET last == CHOOSE i \in 1..Len(obj) :
                       /\ obj[i].k = k
                       /\ \A j \in 1..Len(obj) : obj[j].k = k => j <= i
        IN  JsonValue(obj[last].v)]

\* json.load of the file's text.
JsonLoad(text) == [k \in 1..Len(text) |-> JsonDict(text[k])]

\* _load: an absent file is the empty list, an existing one is parsed.
Load(f) == IF ~f.exists THEN <<>> ELSE JsonLoad(f.subs)

\* Save that writes the list without its last entry.
Save_Truncated(subs) ==
    [exists |-> TRUE, subs |-> JsonDump(SubSeq(subs, 1, Len(subs) - 1))]

\* _save: the whole list is written, as JSON text.
Save(subs) == [exists |-> TRUE, subs |-> JsonDump(subs)]

\* list_subscriptions handing the list out last entry first.
list_subscriptions_Reversed(data) ==
    [k \in 1..Len(data) |-> data[Len(data) + 1 - k]]

\* list_subscriptions
list_subscriptions(data) == data

\* KeyExists with the repository name left out of the comparison.
KeyExists_OwnerOnly(subs, owner, repo) ==
    \E k \in 1..Len(subs) : subs[k].owner = owner

\* The "already present" test of add_subscription.
KeyExists(subs, owner, repo) ==
    \E k \in 1..Len(subs) : subs[k].owner = owner /\ subs[k].repo = repo

\* The entry add_subscription appends.
Entry(owner, repo, label, targ) ==
    [owner |-> owner,
     repo  |-> repo,
     label |-> IF label = "" THEN Slash(owner, repo) ELSE label,
     track |-> IF targ.none THEN DefaultTrack ELSE targ.list]

\* add_subscription that appends the entry without writing the file.
add_subscription_NoSave(subs, owner, repo, label, targ) ==
    IF KeyExists(subs, owner, repo)
    THEN [subs |-> subs, saved |-> FALSE]
    ELSE [subs |-> Append(subs, Entry(owner, repo, label, targ)),
          saved |-> FALSE]

\* add_subscription on a manager's list: the new list, and whether it saved.
add_subscription(subs, owner, repo, label, targ) ==
    IF KeyExists(subs, owner, repo)
    THEN [subs |-> subs, saved |-> FALSE]
    ELSE [subs |-> Append(subs, Entry(owner, repo, label, targ)),
          saved |-> TRUE]

\* remove_subscription that filters the list without writing the file.
remove_subscription_NoSave(subs, owner, repo) ==
    LET keep(s) == ~(s.owner = owner /\ s.repo = repo)
    IN  [subs |-> SelectSeq(subs, keep), saved |-> FALSE]

\* remove_subscription on a manager's list.
remove_subscription(subs, owner, repo) ==
    LET keep(s) == ~(s.owner = owner /\ s.repo = repo)
        kept    == SelectSeq(subs, keep)
    IN  [subs |-> kept, saved |-> Len(kept) < Len(subs)]

\* SubscriptionManager(subscriptions_file)
Construct(m) ==
    /\ mgr' = [mgr EXCEPT ![m] = [loaded |-> TRUE, subs |-> Load(file)]]
    /\ lastOp' = [op |-> "load", m |-> m, owner |-> "", repo |-> "",
                  label |-> "", track |-> <<>>, before |-> <<>>,
                  fileBefore |-> Load(file)]
    /\ UNCHANGED file

AddSubscription(m) ==
    /\ mgr[m].loaded
    /\ \E key \in StoreKeys, label \in Labels, targ \in StoreTrackArgs :
         LET r == add_subscription(mgr[m].subs, key[1], key[2], label, targ)
         IN  /\ Len(r.subs) <= MaxSubs
             /\ mgr' = [mgr EXCEPT ![m].subs = r.subs]
             /\ file' = IF r.saved THEN Save(r.subs) ELSE file
             /\ lastOp' = [op |-> "add", m |-> m, owner |-> key[1],
                           repo |-> key[2], label |-> label,
                           track |-> Entry(key[1], key[2], label, targ).track,
                           before |-> mgr[m].subs,
                           fileBefore |-> Load(file)]

RemoveSubscription(m) ==
    /\ mgr[m].loaded
    /\ \E key \in StoreKeys :
         LET r == remove_subscription(mgr[m].subs, key[1], key[2])
         IN  /\ mgr' = [mgr EXCEPT ![m].subs = r.subs]
             /\ file' = IF r.saved THEN Save(r.subs) ELSE file
             /\ lastOp' = [op |-> "remove", m |-> m, owner |-> key[1],
                           repo |-> key[2], label |-> "", track |-> <<>>,
                           before |-> mgr[m].subs,
                           fileBefore |-> Load(file)]

(* ----------------------------- GitHubClient ---------------------------- *)

\* CategoryOrder with the commits block first.
CategoryOrder_CommitsFirst == <<"commits", "releases", "issues", "pull_requests">>

\* The order of the four "if ... in track" blocks of fetch_updates.
CategoryOrder == <<"releases", "issues", "pull_requests", "commits">>

\* days = 7 if interval == "weekly" else 1
Days(iv) == IF iv = "weekly" THEN 7 ELSE 1

\* A raw item of a remote page.
Raw(id, updated_at, is_pr) ==
    [id |-> id, updated_at |-> updated_at, is_pr |-> is_pr]

\* _get: raise_for_status raises when the endpoint answers non-2xx.
Get(resp, cat) ==
    IF cat \in resp.fail
    THEN [res |-> "RemoteAPIError", data |-> <<>>]
    ELSE [res |-> "ok", data |-> resp.page[cat]]

Item(type, r) == [type |-> type, id |-> r.id]

MapItems(type, data) == [k \in 1..Len(data) |-> Item(type, data[k])]

get_releases(resp) ==
    LET g == Get(resp, "releases")
    IN  [res |-> g.res, items |-> MapItems("release", g.data)]

get_issues(resp) ==
    LET g == Get(resp, "issues")
        notPR(r) == ~r.is_pr
    IN  [res |-> g.res, items |-> MapItems("issue", SelectSeq(g.data, notPR))]

\* IsOlder with an item exactly at the cutoff taken for older.
IsOlder_Inclusive(updated, cutoff) == updated <= cutoff

\* "if updated < cutoff: break"
IsOlder(updated, cutoff) == updated < cutoff

\* The loop of get_pull_requests: walk the page, stop at the first older item.
RECURSIVE WalkPulls(_, _)
WalkPulls(data, cutoff) ==
    IF data = <<>> THEN <<>>
    ELSE IF IsOlder(Head(data).updated_at, cutoff) THEN <<>>
    ELSE <<Item("pull_request", Head(data))>> \o WalkPulls(Tail(data), cutoff)

\* cutoff = now - timedelta(days)
Cutoff(now, days) == now - days

get_pull_requests(resp, now, days) ==
    LET g == Get(resp, "pull_requests")
    IN  [res |-> g.res, items |-> WalkPulls(g.data, Cutoff(now, days))]

get_commits(resp) ==
    LET g == Get(resp, "commits")
    IN  [res |-> g.res, items |-> MapItems("commit", g.data)]

GetCategory(cat, resp, now, days) ==
    CASE cat = "releases"      -> get_releases(resp)
      [] cat = "issues"        -> get_issues(resp)
      [] cat = "pull_requests" -> get_pull_requests(resp, now, days)
      [] cat = "commits"       -> get_commits(resp)

\* track = subscription.get("track", [...all four...])
TrackOf(sub) == IF "track" \in DOMAIN sub THEN sub.track ELSE AllTrack

\* subscription.get("label", f"{owner}/{repo}")
LabelOf(sub) ==
    IF "label" \in DOMAIN sub THEN sub.label ELSE Slash(sub.owner, sub.repo)

\* The four blocks of fetch_updates from block k on; an exception of a getter
\* leaves the function at once and the updates collected so far are lost.
RECURSIVE FetchFrom(_, _, _, _, _, _)
FetchFrom(k, track, resp, now, days, acc) ==
    IF k > Len(CategoryOrder) THEN acc
    ELSE LET cat == CategoryOrder[k]
         IN  IF ~In(cat, track)
             THEN FetchFrom(k + 1, track, resp, now, days, acc)
             ELSE LET g == GetCategory(cat, resp, now, days)
                  IN  IF g.res # "ok"
                      THEN [res   |-> g.res,
                            reqs  |-> Append(acc.reqs, cat),
                            items |-> <<>>]
                      ELSE FetchFrom(k + 1, track, resp, now, days,
                                     [res   |-> "ok",
                                      reqs  |-> Append(acc.reqs, cat),
                                      items |-> acc.items \o g.items])

\* fetch_updates(subscription, days): the result, the requests made (reqs)
\* and, when nothing was raised, the updates dictionary.
fetch_updates(sub, resp, now, days) ==
    LET f == FetchFrom(1, TrackOf(sub), resp, now, days,
                       [res |-> "ok", reqs |-> <<>>, items |-> <<>>])
    IN  [res     |-> f.res,
         reqs    |-> f.reqs,
         updates |-> [owner |-> sub.owner,
                      repo  |-> sub.repo,
                      label |-> LabelOf(sub),
                      items |-> f.items]]

(* ---------------------- LLMReporter and FileNotifier ------------------- *)

\* generate_report: the remote completion call either answers or raises.
generate_report(updates, llmOK) ==
    [res  |-> IF llmOK THEN "ok" ELSE "GenerationError",
     text |-> <<"report", updates.owner, updates.repo>>]

\* updates.get("label", f"{updates['owner']}/{updates['repo']}")
LabelOfUpdates(u) ==
    IF "label" \in DOMAIN u THEN u.label ELSE Slash(u.owner, u.repo)

\* The separator of generate_digest, "\n\n---\n\n" (a text is the sequence
\* of its pieces; the empty text is the empty sequence).
DigestSeparator == <<"\n\n", "---", "\n\n">>

\* Join that ends every part with the separator, the last one too.
RECURSIVE Join_Trailing(_, _)
Join_Trailing(parts, sep) ==
    IF parts = <<>> THEN <<>>
    ELSE Head(parts) \o sep \o Join_Trailing(Tail(parts), sep)

\* sep.join(parts)
RECURSIVE Join(_, _)
Join(parts, sep) ==
    IF parts = <<>> THEN <<>>
    ELSE IF Len(parts) = 1 THEN Head(parts)
    ELSE Head(parts) \o sep \o Join(Tail(parts), sep)

\* The loop of generate_digest from input k on: generate_report is called
\* for each input in turn and its exception leaves the function.
RECURSIVE DigestFrom(_, _, _, _)
DigestFrom(k, all, fails, acc) ==
    IF k > Len(all) THEN acc
    ELSE LET g == generate_report(all[k], k \notin fails)
             called == Append(acc.generated, all[k])
         IN  IF g.res # "ok"
             THEN [res |-> g.res, generated |-> called, parts |-> acc.parts]
             ELSE DigestFrom(k + 1, all, fails,
                    [res |-> "ok", generated |-> called,
                     parts |-> Append(acc.parts,
                                 <<"# ", LabelOfUpdates(all[k]), "\n\n">> \o g.text)])

\* generate_digest(all_updates); fails are the inputs whose remote
\* completion call raises.
generate_digest(all, fails) ==
    LET d == DigestFrom(1, all, fails,
                        [res |-> "ok", generated |-> <<>>, parts |-> <<>>])
    IN  [res |-> d.res, generated |-> d.generated,
         text |-> IF d.res = "ok" THEN Join(d.parts, DigestSeparator) ELSE <<>>]

\* def send(self, content, title=...): the parameters send accepts.
SendParams == {"content", "title"}

\* notifier.send(report, title=..., repo_slug=...): what every caller passes.
SendCallArgs == {"content", "title", "repo_slug"}

\* FileNotifier.send called with the arguments args: Python raises TypeError
\* for a keyword the function does not declare, before its body runs;
\* write_text raises an IOError (OSError) when the disk cannot be written.
send(args, disk) ==
    IF ~(args \subseteq SendParams) THEN [res |-> "TypeError", wrote |-> FALSE]
    ELSE IF ~disk THEN [res |-> "IOError", wrote |-> FALSE]
    ELSE [res |-> "ok", wrote |-> TRUE]

(* ------------------------------ run paths ------------------------------ *)

Paths == {"run_once", "run_and_stream", "job"}

Intervals == {"daily", "weekly"}

\* The instant of the run, in days.
FetchNow == MaxTime

\* A remote page: a fresh item followed by a three days old one that the
\* issues endpoint marks as a pull request.
OldPage == <<Raw(1, FetchNow, FALSE), Raw(2, FetchNow - 3, TRUE)>>

\* The pages of the four endpoints during one fetch_updates call.
PageMaps ==
    {[c \in Categories |-> IF c \in full THEN OldPage ELSE <<>>] :
        full \in {{}, Categories, {"releases", "pull_requests"},
                  {"issues", "commits"}}}

\* The endpoints that answer non-2xx during one fetch_updates call: since
\* the first failure ends the call, at most one is drawn.
FailSets == {{}} \cup {{c} : c \in Categories}

\* What the remote update source answers during one fetch_updates call.
Resps == [fail : FailSets, page : PageMaps]

\* The UI's repository selection: everything, or one (owner, repo).
Selections == {[all |-> TRUE, key |-> <<"", "">>]}
              \cup {[all |-> FALSE, key |-> k] : k \in Keys}

\* Subscription lists a store can hold: at most n entries, no key twice.
ListsOfLen(n) ==
    {s \in [1..n -> {Entry(k[1], k[2], "", t) : k \in Keys, t \in TrackArgs}] :
        \A a, b \in 1..n : a # b => <<s[a].owner, s[a].repo>> # <<s[b].owner, s[b].repo>>}

\* A store of three subscriptions with the default track list: the shortest
\* batch in which one fetch can fail and two succeed.
ThreeSubs ==
    <<Entry("o1", "r1", "", [none |-> TRUE, list |-> <<>>]),
      Entry("o1", "r2", "", [none |-> TRUE, list |-> <<>>]),
      Entry("o2", "r1", "", [none |-> TRUE, list |-> <<>>])>>

InitFiles == {NoFile, Save(ThreeSubs)}
             \cup UNION {{Save(s) : s \in ListsOfLen(n)} : n \in 0..MaxSubs}

\* EmptyCheck with the test left out.
EmptyCheck_Missing(p, subs) == FALSE

\* "if not subscriptions: ... return" of run_once and run_and_stream; the
\* scheduled _job has no such test.
EmptyCheck(p, subs) == p # "job" /\ subs = <<>>

\* NoUpdates with the test left out.
NoUpdates_Missing(ups) == FALSE

\* "if not all_updates: ... return" of run_once and run_and_stream.
NoUpdates(ups) == ups = <<>>

\* Whether path p calls fetch_updates inside a try / except Exception.
CatchesFetchError(p) == p \in {"run_once", "run_and_stream", "job"}

\* Whether path p calls generate_report and send inside a try / except.
CatchesReportError(p) == p \in {"run_and_stream", "job"}

Call(op, u, res, reqs) ==
    [op |-> op, owner |-> u.owner, repo |-> u.repo, res |-> res, reqs |-> reqs]

\* generate_report followed by notifier.send for one fetch result: the calls
\* made, the exception raised ("ok" for none) and whether a file was written.
Report(u, llmOK, disk) ==
    LET g == generate_report(u, llmOK)
        s == send(SendCallArgs, disk)
    IN  IF g.res # "ok"
        THEN [calls |-> <<Call("generate", u, g.res, <<>>)>>,
              res |-> g.res, wrote |-> FALSE]
        ELSE [calls |-> <<Call("generate", u, "ok", <<>>),
                          Call("send", u, s.res, <<>>)>>,
              res |-> s.res, wrote |-> s.wrote]

\* run_once / run_and_stream / _job up to the first remote call.
StartRun(p) ==
    /\ started = "up"
    /\ pc = "idle"
    /\ \E sel \in Selections :
         LET all_subs == list_subscriptions(Load(file))
             chosen(s) == s.owner = sel.key[1] /\ s.repo = sel.key[2]
             subs == IF p = "run_and_stream" /\ ~sel.all
                     THEN SelectSeq(all_subs, chosen) ELSE all_subs
         IN  /\ (p # "run_and_stream" => sel.all)
             /\ path' = p
             /\ subscriptions' = subs
             /\ IF EmptyCheck(p, subs)
                THEN /\ messages' = Append(messages, "empty")
                     /\ outcome' = "empty"
                     /\ pc' = "done"
                ELSE IF subs = <<>>
                THEN /\ messages' = messages
                     /\ outcome' = "completed"
                     /\ pc' = "done"
                ELSE /\ messages' = Append(messages, "start")
                     /\ outcome' = outcome
                     /\ pc' = IF p = "job" THEN "job" ELSE "fetch"
    /\ idx' = 1
    /\ UNCHANGED <<interval, diskOK, all_updates, calls, files>>

\* One iteration of the fetch loop of run_once / run_and_stream, with the
\* "if not all_updates" test that follows the loop's last iteration.
FetchStep ==
    /\ pc = "fetch"
    /\ \E resp \in Resps :
         LET sub == subscriptions[idx]
             r   == fetch_updates(sub, resp, FetchNow, Days(interval))
             ups == IF r.res = "ok" THEN Append(all_updates, r.updates)
                    ELSE all_updates
         IN  /\ calls' = Append(calls, Call("fetch", sub, r.res, r.reqs))
             /\ IF r.res # "ok" /\ ~CatchesFetchError(path)
                THEN /\ pc' = "done"
                     /\ outcome' = "raised"
                     /\ UNCHANGED <<all_updates, idx, messages>>
                ELSE /\ all_updates' = ups
                     /\ IF idx < Len(subscriptions)
                        THEN /\ idx' = idx + 1
                             /\ UNCHANGED <<pc, outcome, messages>>
                        ELSE IF NoUpdates(ups)
                        THEN /\ messages' = Append(messages, "all_failed")
                             /\ outcome' = "all_failed"
                             /\ pc' = "done"
                             /\ idx' = idx
                        ELSE /\ messages' = Append(messages, "generating")
                             /\ outcome' = outcome
                             /\ pc' = "gen"
                             /\ idx' = 1
    /\ UNCHANGED <<interval, diskOK, path, subscriptions, files>>

\* One iteration of the generation loop of run_once / run_and_stream, with
\* what follows the loop's last iteration (run_and_stream writes a combined
\* digest file when more than one report was saved).
GenStep ==
    /\ pc = "gen"
    /\ \E llmOK \in BOOLEAN :
         LET u == all_updates[idx]
             r == Report(u, llmOK, diskOK)
             saved == files + (IF r.wrote THEN 1 ELSE 0)
         IN  /\ calls' = calls \o r.calls
             /\ IF r.res # "ok" /\ ~CatchesReportError(path)
                THEN /\ pc' = "done"
                     /\ outcome' = "raised"
                     /\ files' = saved
                     /\ UNCHANGED <<idx, messages>>
                ELSE IF idx < Len(all_updates)
                THEN /\ idx' = idx + 1
                     /\ files' = saved
                     /\ UNCHANGED <<pc, outcome, messages>>
                ELSE /\ messages' = Append(messages, "completed")
                     /\ outcome' = "completed"
                     /\ pc' = "done"
                     /\ idx' = idx
                     /\ files' = IF path = "run_and_stream" /\ saved > 1
                                 THEN saved + 1 ELSE saved
    /\ UNCHANGED <<interval, diskOK, path, subscriptions, all_updates>>

\* One iteration of the loop of the scheduled _job: fetch, generate and send
\* for one subscription inside a single try / except Exception.
JobStep ==
    /\ pc = "job"
    /\ \E resp \in Resps, llmOK \in BOOLEAN :
         LET sub == subscriptions[idx]
             f   == fetch_updates(sub, resp, FetchNow, Days(interval))
             r   == Report(f.updates, llmOK, diskOK)
             fc  == <<Call("fetch", sub, f.res, f.reqs)>>
             res == IF f.res # "ok" THEN f.res ELSE r.res
             caught == IF f.res # "ok" THEN CatchesFetchError(path)
                       ELSE CatchesReportError(path)
         IN  /\ calls' = IF f.res # "ok" THEN calls \o fc
                         ELSE calls \o fc \o r.calls
             /\ files' = IF f.res = "ok" /\ r.wrote THEN files + 1 ELSE files
             /\ all_updates' = IF f.res = "ok" THEN Append(all_updates, f.updates)
                               ELSE all_updates
             /\ IF res # "ok" /\ ~caught
                THEN /\ pc' = "done"
                     /\ outcome' = "raised"
                     /\ idx' = idx
                ELSE IF idx < Len(subscriptions)
                THEN /\ idx' = idx + 1
                     /\ UNCHANGED <<pc, outcome>>
                ELSE /\ pc' = "done"
                     /\ outcome' = "completed"
                     /\ idx' = idx
    /\ UNCHANGED <<interval, diskOK, path, subscriptions, messages>>

RunIdle ==
    /\ path = "none"
    /\ pc = "idle"
    /\ subscriptions = <<>>
    /\ idx = 1
    /\ all_updates = <<>>
    /\ calls = <<>>
    /\ files = 0
    /\ messages = <<>>
    /\ outcome = "none"

StoreIdle ==
    /\ mgr = [m \in Managers |-> [loaded |-> FALSE, subs |-> <<>>]]
    /\ lastOp = [op |-> "none", m |-> 0, owner |-> "", repo |-> "",
                 label |-> "", track |-> <<>>, before |-> <<>>,
                 fileBefore |-> <<>>]

PRIdle ==
    /\ pr_in = [data |-> <<>>, now |-> 0, days |-> 1]
    /\ pr_out = [called |-> FALSE, result |-> <<>>]

\* A well-formed schedule time, "08:00", as its characters.
EightOClock == <<"0", "8", ":", "0", "0">>

\* The program is up under a complete configuration.
BootIdle ==
    /\ config = [token |-> TRUE, key |-> TRUE, time |-> EightOClock]
    /\ started = "up"

FnIdle ==
    /\ fu_in = [sub |-> Entry("", "", "", [none |-> TRUE, list |-> <<>>]),
                resp |-> [fail |-> {}, page |-> [c \in Categories |-> <<>>]]]
    /\ fu_out = [called |-> FALSE, res |-> "", reqs |-> <<>>, items |-> <<>>]
    /\ dg_in = [updates |-> <<>>, fails |-> {}]
    /\ dg_out = [called |-> FALSE, res |-> "", generated |-> <<>>, text |-> <<>>]

\* Largest number of SentinelScheduler objects constructed.
MaxScheds == 2

\* Largest number of trigger instants that pass.
MaxTicks == 2

Scheds == 1..MaxScheds

SchedIdle ==
    /\ scheduler_obj = 0
    /\ scheduler_thread = 0
    /\ nsched = 0
    /\ tpc = [s \in Scheds |-> "new"]
    /\ sstate = [s \in Scheds |-> "stopped"]
    /\ njobs = [s \in Scheds |-> 0]
    /\ due = [s \in Scheds |-> FALSE]
    /\ active = [s \in Scheds |-> 0]
    /\ ticks = 0
    /\ startedNow = 0
    /\ stopped = FALSE

vars == <<file, mgr, lastOp, interval, diskOK, path, pc, subscriptions, idx,
          all_updates, calls, files, messages, outcome, pr_in, pr_out,
          frontend, scheduler_obj, scheduler_thread, nsched, tpc, sstate,
          njobs, due, active, day, ticks, startedNow, stopped, config,
          started, fu_in, fu_out, dg_in, dg_out>>

\* The pipeline: any subscription file the store can have written, any
\* configuration, one run of one of the three paths.
Init ==
    /\ file \in InitFiles
    /\ interval \in Intervals
    /\ diskOK \in BOOLEAN
    /\ StoreIdle
    /\ RunIdle
    /\ PRIdle
    /\ SchedIdle
    /\ frontend = "repl"
    /\ day = 0
    /\ BootIdle
    /\ FnIdle

Next ==
    \/ \E p \in Paths : StartRun(p) /\ UNCHANGED <<storeVars, prVars, schedVars, bootVars, fnVars>>
    \/ FetchStep /\ UNCHANGED <<storeVars, prVars, schedVars, bootVars, fnVars>>
    \/ GenStep /\ UNCHANGED <<storeVars, prVars, schedVars, bootVars, fnVars>>
    \/ JobStep /\ UNCHANGED <<storeVars, prVars, schedVars, bootVars, fnVars>>

Spec == Init /\ [][Next]_vars

(* ------------------------- the pipeline's claims ----------------------- *)

KeyOf(r) == <<r.owner, r.repo>>

KeysOf(seq) == [k \in 1..Len(seq) |-> KeyOf(seq[k])]

CallsOf(op) == LET is(c) == c.op = op IN SelectSeq(calls, is)

OkCallsOf(op) == LET is(c) == c.op = op /\ c.res = "ok" IN SelectSeq(calls, is)

\* The subscription of the run that a call was made for (keys are unique).
SubOf(c) == CHOOSE s \in Range(subscriptions) : KeyOf(s) = KeyOf(c)

\* C1: every fetch_updates call that returns for a subscription whose track
\* list is empty has requested the three default categories, in the order
\* releases, issues, pull_requests, as it would for the default track list.
C1_EmptyTrackFetchesDefaults ==
    \A k \in 1..Len(calls) :
        (/\ calls[k].op = "fetch"
         /\ calls[k].res = "ok"
         /\ TrackOf(SubOf(calls[k])) = <<>>)
        => calls[k].reqs = DefaultTrack

\* C2: a finished run_once in which every fetch and every generation call
\* succeeded, on a writable disk, has completed normally, has called send
\* once per subscription, every send returned a stored path, and one report
\* file per subscription was written.
C2_RunOnceWritesOneReportPerSubscription ==
    (/\ path = "run_once"
     /\ pc = "done"
     /\ subscriptions # <<>>
     /\ diskOK
     /\ \A k \in 1..Len(calls) :
            calls[k].op \in {"fetch", "generate"} => calls[k].res = "ok")
    => /\ outcome = "completed"
       /\ KeysOf(CallsOf("send")) = KeysOf(subscriptions)
       /\ \A k \in 1..Len(calls) : calls[k].op = "send" => calls[k].res = "ok"
       /\ files = Len(subscriptions)

\* C3: in every run path a failed fetch does not end the run: while the run
\* is fetching nothing has been raised; once it has left its fetch loop a
\* fetch was attempted for every subscription of the list, in list order,
\* and the fetch results kept are exactly those of the subscriptions whose
\* fetch succeeded; and a run in which some fetch failed, while every
\* generation call succeeded and the disk is writable, has by its end
\* attempted report generation for every subscription whose fetch succeeded.
C3_FetchFailureDoesNotAbort ==
    /\ (pc \in {"fetch", "job"} => outcome = "none")
    /\ (pc \in {"gen", "done"} /\ outcome # "empty")
       => /\ KeysOf(CallsOf("fetch")) = KeysOf(subscriptions)
          /\ KeysOf(all_updates) = KeysOf(OkCallsOf("fetch"))
    /\ (/\ pc = "done"
        /\ diskOK
        /\ \E k \in 1..Len(calls) : calls[k].op = "fetch" /\ calls[k].res # "ok"
        /\ \A k \in 1..Len(calls) : calls[k].op = "generate" => calls[k].res = "ok")
       => KeysOf(CallsOf("generate")) = KeysOf(OkCallsOf("fetch"))

\* C4: in a run in which a generation call failed, once the run has ended
\* generation was attempted for every fetch result of the batch, the ones
\* after the failed one included.
C4_GenerationFailureIsRecovered ==
    (\E k \in 1..Len(calls) : calls[k].op = "generate" /\ calls[k].res # "ok")
    => (pc = "done" => KeysOf(CallsOf("generate")) = KeysOf(all_updates))

\* C5: with no subscription configured, a started run_once or run_and_stream
\* (whatever is selected) has ended with the "list is empty" message as its
\* only message, and has made no fetch, generation or sink call and written
\* no file.
C5_EmptyListDoesNothing ==
    (/\ Load(file) = <<>>
     /\ path \in {"run_once", "run_and_stream"})
    => /\ pc = "done"
       /\ outcome = "empty"
       /\ messages = <<"empty">>
       /\ calls = <<>>
       /\ all_updates = <<>>
       /\ files = 0

C5_Witness ==
    /\ Load(file) = <<>>
    /\ path = "run_and_stream"
    /\ pc = "done"
    /\ messages = <<"empty">>

\* C6: in run_once and run_and_stream, once every subscription's fetch has
\* failed the run has stopped with the "all fetches failed" message: no
\* generation call, no sink call, no report file.
C6_AllFetchesFailedStops ==
    (/\ path \in {"run_once", "run_and_stream"}
     /\ subscriptions # <<>>
     /\ Len(CallsOf("fetch")) = Len(subscriptions)
     /\ OkCallsOf("fetch") = <<>>)
    => /\ pc = "done"
       /\ outcome = "all_failed"
       /\ messages[Len(messages)] = "all_failed"
       /\ CallsOf("generate") = <<>>
       /\ CallsOf("send") = <<>>
       /\ files = 0

C6_Witness ==
    /\ path = "run_once"
    /\ Len(subscriptions) = 2
    /\ Len(calls) = 2
    /\ OkCallsOf("fetch") = <<>>
    /\ outcome = "all_failed"

IsPrefix(a, b) == Len(a) <= Len(b) /\ a = SubSeq(b, 1, Len(a))

\* Whether a is b with some elements left out, the order kept.
RECURSIVE IsSubsequence(_, _)
IsSubsequence(a, b) ==
    IF a = <<>> THEN TRUE
    ELSE IF b = <<>> THEN FALSE
    ELSE IF Head(a) = Head(b) THEN IsSubsequence(Tail(a), Tail(b))
    ELSE IsSubsequence(a, Tail(b))

\* C15: within one run the fetch calls are made for the subscriptions in
\* the order of the stored list, without going back or skipping ahead in
\* the run's list, the generation calls are made in the same relative
\* order as the fetches that succeeded, and the sink calls in the order of
\* the generation calls that succeeded.
C15_SubscriptionsProcessedInStoredOrder ==
    /\ IsPrefix(KeysOf(CallsOf("fetch")), KeysOf(subscriptions))
    /\ IsSubsequence(KeysOf(CallsOf("fetch")), KeysOf(Load(file)))
    /\ IsPrefix(KeysOf(CallsOf("generate")), KeysOf(OkCallsOf("fetch")))
    /\ IsPrefix(KeysOf(CallsOf("send")), KeysOf(OkCallsOf("generate")))

\* C15's case: a finished run over three stored subscriptions in which all
\* three were fetched and generated.
C15_Witness ==
    /\ pc = "done"
    /\ Len(Load(file)) = 3
    /\ Len(CallsOf("fetch")) = 3
    /\ Len(CallsOf("generate")) = 3

(* --------------------- the pull-request cutoff alone ------------------- *)

\* The lookback windows the program uses: Days("daily"), Days("weekly").
DaysChoices == {Days(iv) : iv \in Intervals}

\* The pages of the pulls endpoint: any update times, in any order; an
\* item's id is its position in the page.
PullPages ==
    UNION {{[k \in 1..n |-> Raw(k, t[k], FALSE)] : t \in [1..n -> 0..MaxTime]} :
              n \in 0..MaxPRs}

InitPR ==
    /\ pr_in \in [data : PullPages, now : 0..MaxTime, days : DaysChoices]
    /\ pr_out = [called |-> FALSE, result |-> <<>>]
    /\ file = NoFile
    /\ interval = "daily"
    /\ diskOK = TRUE
    /\ StoreIdle
    /\ RunIdle
    /\ SchedIdle
    /\ frontend = "repl"
    /\ day = 0
    /\ BootIdle
    /\ FnIdle

\* get_pull_requests(owner, repo, days) on a page the endpoint answers with.
CallGetPullRequests ==
    /\ ~pr_out.called
    /\ LET resp == [fail |-> {},
                    page |-> [c \in Categories |->
                                 IF c = "pull_requests" THEN pr_in.data
                                 ELSE <<>>]]
           g    == get_pull_requests(resp, pr_in.now, pr_in.days)
       IN  pr_out' = [called |-> TRUE, result |-> g.items]
    /\ UNCHANGED <<pr_in, storeVars, runVars, schedVars, bootVars, fnVars>>

NextPR == CallGetPullRequests

SpecPR == InitPR /\ [][NextPR]_vars

SortedDescending(data) ==
    \A a, b \in 1..Len(data) : a < b => data[a].updated_at >= data[b].updated_at

\* C9: on a page sorted by descending update time, get_pull_requests returns
\* exactly the items with updated_at >= now - days, in the page's order, and
\* neither the first item older than the cutoff nor any item after it.
C9_CutoffOnSortedPage ==
    (pr_out.called /\ SortedDescending(pr_in.data))
    => LET recent(r) == r.updated_at >= pr_in.now - pr_in.days
           kept      == SelectSeq(pr_in.data, recent)
       IN  /\ pr_out.result =
                 [k \in 1..Len(kept) |-> [type |-> "pull_request", id |-> kept[k].id]]
           /\ \A j \in 1..Len(pr_in.data) :
                 ~recent(pr_in.data[j])
                 => \A k \in 1..Len(pr_out.result) : pr_out.result[k].id < j

\* C9's case: a sorted page of three whose first item is exactly at the
\* cutoff and is kept, and whose other two are older and are dropped.
C9_Witness ==
    /\ pr_out.called
    /\ SortedDescending(pr_in.data)
    /\ Len(pr_in.data) = 3
    /\ pr_in.data[1].updated_at = pr_in.now - pr_in.days
    /\ pr_in.data[2].updated_at < pr_in.now - pr_in.days
    /\ Len(pr_out.result) = 1

(* ------------------------ the subscription store ----------------------- *)

InitStore ==
    /\ file = NoFile
    /\ StoreIdle
    /\ interval = "daily"
    /\ diskOK = TRUE
    /\ RunIdle
    /\ PRIdle
    /\ SchedIdle
    /\ frontend = "repl"
    /\ day = 0
    /\ BootIdle
    /\ FnIdle

NextStore ==
    \/ \E m \in Managers : Construct(m) /\ UNCHANGED <<runVars, prVars, schedVars, bootVars, fnVars>>
    \/ \E m \in Managers : AddSubscription(m) /\ UNCHANGED <<runVars, prVars, schedVars, bootVars, fnVars>>
    \/ \E m \in Managers : RemoveSubscription(m) /\ UNCHANGED <<runVars, prVars, schedVars, bootVars, fnVars>>

SpecStore == InitStore /\ [][NextStore]_vars

NoDupKeys(subs) ==
    \A a, b \in 1..Len(subs) : a # b => KeyOf(subs[a]) # KeyOf(subs[b])

EntriesFor(subs, owner, repo) ==
    {k \in 1..Len(subs) : KeyOf(subs[k]) = <<owner, repo>>}

\* C10: an add_subscription call whose (owner, repo) was already in the
\* manager's list leaves that list as it was (so the entry keeps the first
\* call's label and track); after any add_subscription call the list holds
\* exactly one entry for the key; and no list of a manager, nor the file,
\* ever holds two entries with the same (owner, repo).
C10_AddIsIdempotent ==
    /\ \A m \in Managers : NoDupKeys(mgr[m].subs)
    /\ NoDupKeys(Load(file))
    /\ lastOp.op = "add"
       => /\ (EntriesFor(lastOp.before, lastOp.owner, lastOp.repo) # {}
                 => mgr[lastOp.m].subs = lastOp.before)
          /\ Cardinality(EntriesFor(mgr[lastOp.m].subs, lastOp.owner, lastOp.repo)) = 1

\* C10's case: the last call added a key that was already present, with a
\* label and a track list other than the stored ones.
C10_Witness ==
    /\ lastOp.op = "add"
    /\ EntriesFor(lastOp.before, lastOp.owner, lastOp.repo) # {}
    /\ lastOp.label = "L1"
    /\ \E k \in EntriesFor(mgr[lastOp.m].subs, lastOp.owner, lastOp.repo) :
          /\ mgr[lastOp.m].subs[k].label = Slash(lastOp.owner, lastOp.repo)
          /\ mgr[lastOp.m].subs[k].track # lastOp.track

\* C11: writing any list a manager holds and reading the written file back
\* yields the same list (same entries, same order, same owner, repo, label
\* and track); a manager constructed on a file that holds what another
\* manager saved has that manager's list; an absent file loads as the empty
\* list.
C11_SaveLoadRoundTrip ==
    /\ \A m \in Managers :
          mgr[m].loaded => Load(Save(mgr[m].subs)) = mgr[m].subs
    /\ lastOp.op = "load"
       => \A m \in Managers :
             (mgr[m].loaded /\ file = Save(mgr[m].subs))
             => mgr[lastOp.m].subs = mgr[m].subs
    /\ (~file.exists /\ lastOp.op = "load") => mgr[lastOp.m].subs = <<>>

\* C11's case: a manager was constructed on the file another manager wrote
\* two entries to, with different labels and track lists.
C11_Witness ==
    /\ lastOp.op = "load"
    /\ \E m \in Managers \ {lastOp.m} :
          /\ mgr[m].loaded
          /\ file = Save(mgr[m].subs)
          /\ Len(mgr[m].subs) = 2
          /\ mgr[m].subs[1].label # Slash(mgr[m].subs[1].owner, mgr[m].subs[1].repo)
          /\ mgr[m].subs[1].track # mgr[m].subs[2].track
          /\ mgr[lastOp.m].subs = mgr[m].subs

\* The manager that alone has been constructed so far, if there is one.
OnlyManager(m) ==
    /\ mgr[m].loaded
    /\ \A n \in Managers \ {m} : ~mgr[n].loaded

\* C12: while a single manager operates on the file, after each of its
\* add_subscription and remove_subscription calls a fresh load of the file
\* yields exactly the manager's in-memory list.
C12_MutationsPersistedImmediately ==
    \A m \in Managers :
        (OnlyManager(m) /\ lastOp.op \in {"add", "remove"})
        => Load(file) = mgr[m].subs

\* C12's case: the only manager added two entries and then removed the
\* first.
C12_Witness ==
    /\ \E m \in Managers : OnlyManager(m) /\ Len(mgr[m].subs) = 1
    /\ lastOp.op = "remove"
    /\ Len(lastOp.before) = 2
    /\ KeyOf(lastOp.before[1]) = <<lastOp.owner, lastOp.repo>>

\* C19: a mutation that changes a manager's list writes exactly that list
\* to the file, whatever the file held: nothing is read again or merged, so
\* what another manager wrote since this one was constructed is overwritten.
C19_WriterOverwritesTheFile ==
    (/\ lastOp.op \in {"add", "remove"}
     /\ mgr[lastOp.m].subs # lastOp.before)
    => Load(file) = mgr[lastOp.m].subs

\* C19's case, the lost update: both managers were constructed on the same
\* file; one added a subscription, which the file held; the other then
\* added a different one, and the first one's subscription is no longer in
\* the file although nobody removed it.
C19_Witness ==
    /\ lastOp.op = "add"
    /\ mgr[lastOp.m].subs # lastOp.before
    /\ \E m \in Managers \ {lastOp.m} :
          \E k \in 1..Len(mgr[m].subs) :
             LET key == KeyOf(mgr[m].subs[k])
             IN  /\ key # <<lastOp.owner, lastOp.repo>>
                 /\ EntriesFor(lastOp.fileBefore, key[1], key[2]) # {}
                 /\ EntriesFor(lastOp.before, key[1], key[2]) = {}
                 /\ EntriesFor(Load(file), key[1], key[2]) = {}

(* ----------------------------- the scheduler --------------------------- *)

Frontends == {"repl", "ui"}

\* _build_trigger with the weekly trigger lacking its day_of_week.
BuildTrigger_NoWeekday(iv) == 0..6

\* _build_trigger: the weekdays (0 is Monday) on which the cron trigger
\* fires at hour:minute.
BuildTrigger(iv) == IF iv = "weekly" THEN {0} ELSE 0..6

\* threading.Thread.is_alive(): from Thread.start() until the target returns.
Digits == <<"0", "1", "2", "3", "4", "5", "6", "7", "8", "9">>

\* time_str.split(":")
RECURSIVE Split(_, _, _)
Split(str, cur, acc) ==
    IF str = <<>> THEN Append(acc, cur)
    ELSE IF Head(str) = ":" THEN Split(Tail(str), <<>>, Append(acc, cur))
    ELSE Split(Tail(str), Append(cur, Head(str)), acc)

\* Whether int(part) returns: a non-empty run of digits.
IsInt(part) == part # <<>> /\ \A k \in 1..Len(part) : In(part[k], Digits)

\* int(part)
RECURSIVE IntOf(_)
IntOf(part) ==
    IF part = <<>> THEN 0
    ELSE LET d == CHOOSE n \in 1..Len(Digits) : Digits[n] = part[Len(part)]
         IN  10 * IntOf(SubSeq(part, 1, Len(part) - 1)) + (d - 1)

\* SentinelScheduler.__init__: hour, minute = map(int, time_str.split(":"))
\* raises ValueError unless there are exactly two parts, both integers;
\* the values are not range-checked.
SentinelScheduler(time_str) ==
    LET parts == Split(time_str, <<>>, <<>>)
    IN  IF Len(parts) = 2 /\ IsInt(parts[1]) /\ IsInt(parts[2])
        THEN [res |-> "ok", hour |-> IntOf(parts[1]), minute |-> IntOf(parts[2])]
        ELSE [res |-> "ValueError", hour |-> 0, minute |-> 0]

\* CronTrigger(hour=..., minute=...) raises ValueError for a value outside
\* the field's range.
CronTrigger(hour, minute) ==
    IF hour \in 0..23 /\ minute \in 0..59 THEN "ok" ELSE "ValueError"

\* load_config: EnvironmentError when a credential is missing from the
\* environment; the schedule time is not looked at.
load_config(c) ==
    IF ~c.token THEN "EnvironmentError"
    ELSE IF ~c.key THEN "EnvironmentError"
    ELSE "ok"

\* main.py / app.py at start: config = load_config(); an exception ends the
\* program.
LoadConfig ==
    /\ started = "boot"
    /\ started' = IF load_config(config) = "ok" THEN "up" ELSE "fatal"
    /\ UNCHANGED config

IsAlive(t) == t # 0 /\ tpc[t] \in {"started", "added", "loop"}

\* BlockingScheduler.shutdown(wait=False): raises SchedulerNotRunningError
\* when the scheduler is not running, else cancels the future firings.
Shutdown(st) ==
    IF st = "stopped"
    THEN [res |-> "SchedulerNotRunningError", state |-> st]
    ELSE [res |-> "ok", state |-> "stopped"]

\* app.py start_scheduler: nothing when the thread is alive; else a new
\* SentinelScheduler and a new daemon thread running its start(_job).
StartScheduler ==
    /\ frontend = "ui"
    /\ started = "up"
    /\ stopped' = FALSE
    /\ IF IsAlive(scheduler_thread)
       THEN UNCHANGED <<scheduler_obj, scheduler_thread, nsched, tpc>>
       ELSE IF SentinelScheduler(config.time).res # "ok"
       THEN UNCHANGED <<scheduler_obj, scheduler_thread, nsched, tpc>>
       ELSE /\ nsched < MaxScheds
            /\ nsched' = nsched + 1
            /\ scheduler_obj' = nsched + 1
            /\ scheduler_thread' = nsched + 1
            /\ tpc' = [tpc EXCEPT ![nsched + 1] = "started"]
    /\ UNCHANGED <<frontend, sstate, njobs, due, active, day, ticks, startedNow>>

\* app.py stop_scheduler: shutdown inside try / except Exception: pass, then
\* the handle is dropped.
StopScheduler ==
    /\ frontend = "ui"
    /\ sstate' = IF scheduler_obj # 0
                 THEN [sstate EXCEPT ![scheduler_obj] = Shutdown(@).state]
                 ELSE sstate
    /\ scheduler_obj' = 0
    /\ stopped' = TRUE
    /\ UNCHANGED <<frontend, scheduler_thread, nsched, tpc, njobs, due, active,
                   day, ticks, startedNow>>

\* main.py start_schedule (REPL command "schedule"): a new SentinelScheduler
\* and a new daemon thread running its start, whatever was started before.
StartSchedule ==
    /\ frontend = "repl"
    /\ started = "up"
    /\ pc \in {"idle", "done"}
    /\ IF SentinelScheduler(config.time).res # "ok"
       THEN /\ started' = "fatal"
            /\ UNCHANGED <<nsched, tpc>>
       ELSE /\ nsched < MaxScheds
            /\ nsched' = nsched + 1
            /\ tpc' = [tpc EXCEPT ![nsched + 1] = "started"]
            /\ started' = started
    /\ UNCHANGED <<frontend, scheduler_obj, scheduler_thread, sstate, njobs,
                   due, active, day, ticks, startedNow, stopped, config>>

\* SentinelScheduler.start, first half: the trigger is built and the job is
\* registered; a ValueError of the trigger ends the thread.
ThreadAddJob(s) ==
    /\ tpc[s] = "started"
    /\ LET c == SentinelScheduler(config.time)
       IN  IF CronTrigger(c.hour, c.minute) = "ok"
           THEN /\ njobs' = [njobs EXCEPT ![s] = @ + 1]
                /\ tpc' = [tpc EXCEPT ![s] = "added"]
           ELSE /\ njobs' = njobs
                /\ tpc' = [tpc EXCEPT ![s] = "exited"]
    /\ UNCHANGED <<frontend, scheduler_obj, scheduler_thread, nsched, sstate,
                   due, active, day, ticks, startedNow, stopped>>

\* SentinelScheduler.start, second half: self._scheduler.start() sets the
\* scheduler running and enters its blocking loop.
ThreadStartLoop(s) ==
    /\ tpc[s] = "added"
    /\ sstate' = [sstate EXCEPT ![s] = "running"]
    /\ tpc' = [tpc EXCEPT ![s] = "loop"]
    /\ UNCHANGED <<frontend, scheduler_obj, scheduler_thread, nsched, njobs,
                   due, active, day, ticks, startedNow, stopped>>

\* The blocking loop ends once the scheduler is shut down; start returns and
\* the thread ends.
ThreadExit(s) ==
    /\ tpc[s] = "loop"
    /\ sstate[s] = "stopped"
    /\ tpc' = [tpc EXCEPT ![s] = "exited"]
    /\ due' = [due EXCEPT ![s] = FALSE]
    /\ UNCHANGED <<frontend, scheduler_obj, scheduler_thread, nsched, sstate,
                   njobs, active, day, ticks, startedNow, stopped>>

\* The clock reaches the next day's hour:minute. A scheduler whose loop is
\* running has the instant to process when its trigger names the weekday;
\* any other scheduler misses it for good.
Tick ==
    /\ ticks < MaxTicks
    /\ ticks' = ticks + 1
    /\ day' = (day + 1) % 7
    /\ due' = [s \in Scheds |->
                 /\ tpc[s] = "loop"
                 /\ sstate[s] = "running"
                 /\ njobs[s] > 0
                 /\ day' \in BuildTrigger(interval)]
    /\ startedNow' = 0
    /\ UNCHANGED <<frontend, scheduler_obj, scheduler_thread, nsched, tpc,
                   sstate, njobs, active, stopped>>

\* The loop of scheduler s processes its due job: the job is handed to the
\* executor, which runs it in a thread of its own, unless the scheduler was
\* shut down meanwhile or an execution of the job is still in progress (the
\* library runs at most one instance of a job at a time).
Fire(s) ==
    /\ tpc[s] = "loop"
    /\ due[s]
    /\ due' = [due EXCEPT ![s] = FALSE]
    /\ IF sstate[s] = "running" /\ active[s] < 1
       THEN /\ active' = [active EXCEPT ![s] = @ + 1]
            /\ startedNow' = startedNow + 1
       ELSE UNCHANGED <<active, startedNow>>
    /\ UNCHANGED <<frontend, scheduler_obj, scheduler_thread, nsched, tpc,
                   sstate, njobs, day, ticks, stopped>>

\* An execution of the job (run_once, or the UI's _job) returns.
JobEnd(s) ==
    /\ active[s] > 0
    /\ active' = [active EXCEPT ![s] = @ - 1]
    /\ UNCHANGED <<frontend, scheduler_obj, scheduler_thread, nsched, tpc,
                   sstate, njobs, due, day, ticks, startedNow, stopped>>

InitSched ==
    /\ frontend \in Frontends
    /\ interval \in Intervals
    /\ day \in 0..6
    /\ SchedIdle
    /\ file = NoFile
    /\ diskOK = TRUE
    /\ StoreIdle
    /\ RunIdle
    /\ PRIdle
    /\ BootIdle
    /\ FnIdle

NextSched ==
    \/ StartScheduler /\ UNCHANGED <<storeVars, runVars, prVars, bootVars, fnVars>>
    \/ StopScheduler /\ UNCHANGED <<storeVars, runVars, prVars, bootVars, fnVars>>
    \/ StartSchedule /\ UNCHANGED <<storeVars, runVars, prVars, fnVars>>
    \/ \E s \in Scheds : ThreadAddJob(s) /\ UNCHANGED <<storeVars, runVars, prVars, bootVars, fnVars>>
    \/ \E s \in Scheds : ThreadStartLoop(s) /\ UNCHANGED <<storeVars, runVars, prVars, bootVars, fnVars>>
    \/ \E s \in Scheds : ThreadExit(s) /\ UNCHANGED <<storeVars, runVars, prVars, bootVars, fnVars>>
    \/ Tick /\ UNCHANGED <<storeVars, runVars, prVars, bootVars, fnVars>>
    \/ \E s \in Scheds : Fire(s) /\ UNCHANGED <<storeVars, runVars, prVars, bootVars, fnVars>>
    \/ \E s \in Scheds : JobEnd(s) /\ UNCHANGED <<storeVars, runVars, prVars, bootVars, fnVars>>

SpecSched == InitSched /\ [][NextSched]_vars

\* C7: while stop_scheduler has returned and start_scheduler has not been
\* called since, no step starts an execution of the job.
C7_NoFiringAfterStop ==
    [][stopped /\ stopped' => \A s \in Scheds : active'[s] <= active[s]]_vars

RECURSIVE SumActive(_)
SumActive(n) == IF n = 0 THEN 0 ELSE active[n] + SumActive(n - 1)

\* C8: at most one execution of the pipeline job is in progress, and at most
\* one execution was started for the last trigger instant.
C8_NoOverlappingFirings ==
    /\ SumActive(MaxScheds) <= 1
    /\ startedNow <= 1

\* The weekdays the claim names for an interval (0 is Monday).
FiringDays(iv) == IF iv = "weekly" THEN {0} ELSE {0, 1, 2, 3, 4, 5, 6}

\* C17: at every instant hour:minute of a day, the job of a scheduler is
\* due exactly when the scheduler is running with its job registered and
\* the day is one of the interval's days (every day for daily, Monday only
\* for weekly), the hour and minute being those of the configured time; a
\* job becomes due at such an instant only, and an execution starts only
\* for a due job of a running scheduler, which uses the instant up: an
\* instant at which the scheduler was not running is never executed later.
C17_DailyAndWeeklyFiring ==
    [][/\ ticks' = ticks + 1
          => /\ \A s \in Scheds :
                   due'[s] <=> /\ tpc[s] = "loop"
                               /\ sstate[s] = "running"
                               /\ njobs[s] = 1
                               /\ day' \in FiringDays(interval)
             /\ SentinelScheduler(config.time) = [res |-> "ok", hour |-> 8, minute |-> 0]
       /\ \A s \in Scheds :
             /\ (due'[s] /\ ~due[s]) => ticks' = ticks + 1
             /\ active'[s] > active[s]
                => /\ due[s] /\ ~due'[s]
                   /\ sstate[s] = "running"
                   /\ day \in FiringDays(interval)
                   /\ active'[s] = 1]_vars

\* C17's case: a weekly scheduler that let a Sunday instant pass without an
\* execution and started one at the Monday instant after it.
C17_Witness ==
    /\ interval = "weekly"
    /\ ticks = 2
    /\ day = 0
    /\ startedNow = 1
    /\ \E s \in Scheds : sstate[s] = "running" /\ active[s] = 1 /\ ~due[s]

\* app.py _scheduler_status: "running" exactly when the thread is alive.
SchedulerStatus == IF IsAlive(scheduler_thread) THEN "running" ELSE "stopped"

\* C20: in the UI, when a start_scheduler call made after stop_scheduler
\* has returned returns, there is a live scheduler (its thread is about to
\* start it, or it is running with its job registered), so that future
\* firings are registered, and the status reported is "running": the call
\* is not dropped because the stopped scheduler's thread is still alive.
C20_StartAfterStopIsNotDropped ==
    [][(frontend = "ui" /\ stopped /\ ~stopped')
       => /\ \E s \in Scheds :
                \/ tpc'[s] \in {"started", "added"}
                \/ tpc'[s] = "loop" /\ sstate'[s] = "running" /\ njobs'[s] > 0
          /\ SchedulerStatus' = "running"]_vars

(* ----------------------------- configuration -------------------------- *)

\* Schedule times of settings.yaml: "08:00", "0800" (no colon), "xx:00"
\* (not a number), "25:00" and "08:60" (out of range).
TimeStrs ==
    {EightOClock,
     <<"0", "8", "0", "0">>,
     <<"x", "x", ":", "0", "0">>,
     <<"2", "5", ":", "0", "0">>,
     <<"0", "8", ":", "6", "0">>}

Configs == [token : BOOLEAN, key : BOOLEAN, time : TimeStrs]

\* The subscription files of the start-up specification: none, or one entry.
ConfigFiles == {NoFile} \cup {Save(l) : l \in ListsOfLen(1)}

\* The process from its start: load_config, then the commands of the
\* front end (run, schedule) and the scheduler thread's first steps.
InitConfig ==
    /\ config \in Configs
    /\ started = "boot"
    /\ frontend \in Frontends
    /\ file \in ConfigFiles
    /\ interval = "daily"
    /\ diskOK = TRUE
    /\ day = 0
    /\ StoreIdle
    /\ RunIdle
    /\ PRIdle
    /\ SchedIdle
    /\ FnIdle

NextConfig ==
    \/ LoadConfig /\ UNCHANGED <<storeVars, runVars, prVars, schedVars, fnVars>>
    \/ StartRun(IF frontend = "repl" THEN "run_once" ELSE "run_and_stream")
          /\ UNCHANGED <<storeVars, prVars, schedVars, bootVars, fnVars>>
    \/ FetchStep /\ UNCHANGED <<storeVars, prVars, schedVars, bootVars, fnVars>>
    \/ GenStep /\ UNCHANGED <<storeVars, prVars, schedVars, bootVars, fnVars>>
    \/ StartSchedule /\ UNCHANGED <<storeVars, runVars, prVars, fnVars>>
    \/ StartScheduler /\ UNCHANGED <<storeVars, runVars, prVars, bootVars, fnVars>>
    \/ \E s \in Scheds : ThreadAddJob(s) /\ UNCHANGED <<storeVars, runVars, prVars, bootVars, fnVars>>
    \/ \E s \in Scheds : ThreadStartLoop(s) /\ UNCHANGED <<storeVars, runVars, prVars, bootVars, fnVars>>

SpecConfig == InitConfig /\ [][NextConfig]_vars

\* A configuration without error: both credentials present and a schedule
\* time of two numeric fields, hour 0..23 and minute 0..59.
ValidConfig(c) ==
    /\ c.token
    /\ c.key
    /\ LET t == SentinelScheduler(c.time)
       IN  t.res = "ok" /\ t.hour \in 0..23 /\ t.minute \in 0..59

\* C13: pipeline work (a fetch, generation or sink call) is only ever done
\* under a configuration without error: with a missing credential or a
\* malformed schedule time the program has stopped before any such call.
C13_ConfigErrorsFatalAtStartup ==
    calls # <<>> => ValidConfig(config)


(* ----------------------------- fetch_updates --------------------------- *)

\* Track lists of the subscriptions fetch_updates is called with.
FetchTracks ==
    {<<>>, DefaultTrack, AllTrack, <<"commits", "releases">>, <<"issues">>,
     <<"pull_requests", "issues">>}

\* The subscriptions: entries as add_subscription writes them, and one
\* written by hand without a "track" key.
FetchSubs ==
    {Entry("o1", "r1", "", [none |-> FALSE, list |-> t]) : t \in FetchTracks}
    \cup {[owner |-> "o1", repo |-> "r1", label |-> "L1"]}

\* What the four endpoints answer: each its page or nothing, at most one of
\* them non-2xx.
FetchResps == [fail : FailSets, page : [Categories -> {<<>>, OldPage}]]

InitFetch ==
    /\ fu_in \in [sub : FetchSubs, resp : FetchResps]
    /\ fu_out = [called |-> FALSE, res |-> "", reqs |-> <<>>, items |-> <<>>]
    /\ dg_in = [updates |-> <<>>, fails |-> {}]
    /\ dg_out = [called |-> FALSE, res |-> "", generated |-> <<>>, text |-> <<>>]
    /\ interval \in Intervals
    /\ file = NoFile
    /\ diskOK = TRUE
    /\ frontend = "repl"
    /\ day = 0
    /\ StoreIdle
    /\ RunIdle
    /\ PRIdle
    /\ SchedIdle
    /\ BootIdle

\* gh_client.fetch_updates(sub, days=days)
CallFetchUpdates ==
    /\ ~fu_out.called
    /\ LET r == fetch_updates(fu_in.sub, fu_in.resp, FetchNow, Days(interval))
       IN  fu_out' = [called |-> TRUE, res |-> r.res, reqs |-> r.reqs,
                      items |-> IF r.res = "ok" THEN r.updates.items ELSE <<>>]
    /\ UNCHANGED <<fu_in, dg_in, dg_out, storeVars, runVars, prVars, schedVars,
                   bootVars>>

NextFetch == CallFetchUpdates

SpecFetch == InitFetch /\ [][NextFetch]_vars

\* The categories a subscription names, in the fixed order.
TrackedInOrder(sub) ==
    LET named(c) == In(c, TrackOf(sub))
    IN  SelectSeq(<<"releases", "issues", "pull_requests", "commits">>, named)

\* The items of the categories in cats, one category after the other.
RECURSIVE ItemsOf(_, _, _)
ItemsOf(cats, resp, days) ==
    IF cats = <<>> THEN <<>>
    ELSE GetCategory(Head(cats), resp, FetchNow, days).items
         \o ItemsOf(Tail(cats), resp, days)

\* C14: a fetch_updates call in which one tracked category's endpoint fails
\* still returns: every tracked category was requested, and the items of
\* the tracked categories that answered are returned.
C14_CategoryFailureIsRecovered ==
    (fu_out.called /\ \E c \in fu_in.resp.fail : In(c, TrackOf(fu_in.sub)))
    => LET answered(c) == c \notin fu_in.resp.fail
       IN  /\ fu_out.res = "ok"
           /\ fu_out.reqs = TrackedInOrder(fu_in.sub)
           /\ fu_out.items = ItemsOf(SelectSeq(TrackedInOrder(fu_in.sub), answered),
                                     fu_in.resp, Days(interval))

\* The category an item's type belongs to.
CategoryOfType(type) ==
    CASE type = "release"      -> "releases"
      [] type = "issue"        -> "issues"
      [] type = "pull_request" -> "pull_requests"
      [] type = "commit"       -> "commits"

\* C16: the items of a returned fetch result are the items of the categories
\* the subscription names, category after category in the order releases,
\* issues, pull_requests, commits, whatever the order of the names in the
\* track list, each category's items in the order returned; no item of a
\* category that is not named appears.
C16_ItemsConcatenatedInFixedOrder ==
    (fu_out.called /\ fu_out.res = "ok")
    => /\ fu_out.items = ItemsOf(TrackedInOrder(fu_in.sub), fu_in.resp,
                                 Days(interval))
       /\ \A k \in 1..Len(fu_out.items) :
             In(CategoryOfType(fu_out.items[k].type), TrackOf(fu_in.sub))

\* C16's case: a track list naming commits before releases, both endpoints
\* answering two items: the releases come first, then the commits.
C16_Witness ==
    /\ fu_out.called
    /\ fu_out.res = "ok"
    /\ TrackOf(fu_in.sub) = <<"commits", "releases">>
    /\ Len(fu_out.items) = 4
    /\ fu_out.items[1].type = "release"
    /\ fu_out.items[4].type = "commit"


(* ---------------------------- generate_digest -------------------------- *)

\* Fetch results handed to generate_digest: with a label of their own, with
\* the default label, and one without a "label" key.
DigestUpdates ==
    {[owner |-> "o1", repo |-> "r1", label |-> "L1", items |-> <<>>],
     [owner |-> "o1", repo |-> "r2", label |-> "o1/r2",
      items |-> <<Item("release", Raw(1, FetchNow, FALSE))>>],
     [owner |-> "o2", repo |-> "r1", label |-> "L1", items |-> <<>>],
     [owner |-> "o2", repo |-> "r2", items |-> <<>>]}

DigestInputs ==
    UNION {[1..n -> DigestUpdates] : n \in 0..MaxSubs}

InitDigest ==
    /\ dg_in \in [updates : DigestInputs, fails : SUBSET (1..MaxSubs)]
    /\ dg_out = [called |-> FALSE, res |-> "", generated |-> <<>>, text |-> <<>>]
    /\ fu_in = [sub |-> Entry("", "", "", [none |-> TRUE, list |-> <<>>]),
                resp |-> [fail |-> {}, page |-> [c \in Categories |-> <<>>]]]
    /\ fu_out = [called |-> FALSE, res |-> "", reqs |-> <<>>, items |-> <<>>]
    /\ interval = "daily"
    /\ file = NoFile
    /\ diskOK = TRUE
    /\ frontend = "repl"
    /\ day = 0
    /\ StoreIdle
    /\ RunIdle
    /\ PRIdle
    /\ SchedIdle
    /\ BootIdle

\* reporter.generate_digest(all_updates)
CallGenerateDigest ==
    /\ ~dg_out.called
    /\ LET d == generate_digest(dg_in.updates, dg_in.fails)
       IN  dg_out' = [called |-> TRUE, res |-> d.res, generated |-> d.generated,
                      text |-> d.text]
    /\ UNCHANGED <<dg_in, fu_in, fu_out, storeVars, runVars, prVars, schedVars,
                   bootVars>>

NextDigest == CallGenerateDigest

SpecDigest == InitDigest /\ [][NextDigest]_vars

\* The section of input k: the heading "# {label}", a blank line, the report.
DigestSection(k) ==
    LET u == dg_in.updates[k]
    IN  <<"# ", IF "label" \in DOMAIN u THEN u.label ELSE Slash(u.owner, u.repo),
          "\n\n", "report", u.owner, u.repo>>

\* The sections 1..n with "---" between two neighbours.
RECURSIVE DigestOfFirst(_)
DigestOfFirst(n) ==
    IF n = 0 THEN <<>>
    ELSE IF n = 1 THEN DigestSection(1)
    ELSE DigestOfFirst(n - 1) \o <<"\n\n", "---", "\n\n">> \o DigestSection(n)

\* C18: a generate_digest call that returns has called the generation step
\* once per input fetch result, in input order, and returns the sections
\* "# {label}" + report with the "---" separator between them; for the
\* empty input it returns, has made no generation call and yields the empty
\* document. A call that raises has made its calls in input order, each
\* input at most once.
C18_DigestJoinsOneReportPerInput ==
    dg_out.called
    => /\ dg_out.res = "ok"
          => /\ dg_out.generated = dg_in.updates
             /\ dg_out.text = DigestOfFirst(Len(dg_in.updates))
       /\ dg_in.updates = <<>>
          => dg_out.res = "ok" /\ dg_out.generated = <<>> /\ dg_out.text = <<>>
       /\ IsPrefix(dg_out.generated, dg_in.updates)

\* C18's case: two inputs, both generated: two sections and one separator.
C18_Witness ==
    /\ dg_out.called
    /\ dg_out.res = "ok"
    /\ Len(dg_in.updates) = 2
    /\ Len(dg_out.text) = 15

=============================================================================
